---- MODULE Spec2Model ----
(***************************************************************************)
(* The tails-file handling of RevocationRegistry                          *)
(* (aries_cloudagent/revocation/models/revocation_registry.py):           *)
(* get_receiving_tails_local_path, has_local_tails_file, retrieve_tails,  *)
(* get_or_fetch_local_tails_path and the two setters, run by asyncio      *)
(* tasks over one registry object, one filesystem and one transport.      *)
(*                                                                         *)
(* A coroutine runs without interruption between two awaits, so every     *)
(* action below is the code between two suspension points.                *)
(***************************************************************************)
EXTENDS Integers, Sequences, FiniteSets, TLC

\* ------------------------------------------------------------------ bounds

\* Most calls and assignments the callers make in one run: when calls may
\* overlap, and when they are made one at a time.
MaxOps == 2
MaxSeqOps == 4
\* buffer_size (line 176, 65536 in the code) scaled to the streams below: the
\* most bytes one read returns and the capacity of the file's write buffer.
BufferSize == 1

\* The asyncio tasks that call into the registry.
Callers == {"c1", "c2"}

\* Byte values a stream carries; 0 is the byte a file hole reads as.
Byte == {1, 2}

\* The tails file the definition declares: tailsHash is its hash.
TailsFile == <<1, 2>>

\* What a stream opened on the public URI can deliver before its empty chunk:
\* the tails file, or it cut short, or other bytes.
RemoteContents == {TailsFile, <<1>>, <<>>, <<2, 1>>}

\* ------------------------------------------------------- values and paths

\* A Python value that is None, a str or a pathlib.Path.  A str is kept as its
\* "/"-separated segments, a segment as its characters; "" has no segment and
\* "c/" ends with an empty one.
None == [kind |-> "None", segs |-> <<>>]
Str(segs) == [kind |-> "str", segs |-> segs]

\* pathlib drops the empty segments of the string it is built from.
Norm(segs) == SelectSeq(segs, LAMBDA s : s # <<>>)

\* Path(v) for v a str or a Path.
Path(v) == [kind |-> "Path", segs |-> Norm(v.segs)]

\* str(p) for p a Path.
StrOf(p) == [kind |-> "str", segs |-> p.segs]

\* Path(a).joinpath(b)
JoinPath(a, b) == [kind |-> "Path", segs |-> Norm(a.segs \o b.segs)]

\* A test against None where the code tests truthiness.
TruthyIsNotNone(v) == v.kind # "None"

\* A truthiness in which only a non-empty string is true.
TruthyOnlyStr(v) == v.kind = "str" /\ v.segs # <<>>

\* Python truthiness: None and "" are false, every Path is true.
Truthy(v) == v.kind = "Path" \/ (v.kind = "str" /\ v.segs # <<>>)

\* Path(gettempdir(), "indy", "revocation", "tails_files")
DefaultTailsDir ==
    [kind |-> "Path",
     segs |-> << <<"tmp">>, <<"indy">>, <<"revocation">>, <<"tails_files">> >>]

\* --------------------------------------------------------- digest, base58

\* hashlib.sha256 with the digest cut to one byte: the state after update(b).
Sha256Init == 89
Sha256Step(h, b) == (h * 33 + b + 7) % 256

RECURSIVE Sha256Update(_, _)
Sha256Update(h, buf) ==
    IF buf = <<>> THEN h ELSE Sha256Update(Sha256Step(h, Head(buf)), Tail(buf))

\* file_hasher.digest(): the digest bytes.
Sha256Digest(h) == <<h>>

\* hashlib.sha256(data).digest()
Sha256(data) == Sha256Digest(Sha256Update(Sha256Init, data))

B58Alphabet ==
    << "1", "2", "3", "4", "5", "6", "7", "8", "9", "A", "B", "C", "D", "E", "F",
       "G", "H", "J", "K", "L", "M", "N", "P", "Q", "R", "S", "T", "U", "V", "W",
       "X", "Y", "Z", "a", "b", "c", "d", "e", "f", "g", "h", "i", "j", "k", "m",
       "n", "o", "p", "q", "r", "s", "t", "u", "v", "w", "x", "y", "z" >>

RECURSIVE BytesToInt(_)
BytesToInt(bs) ==
    IF bs = <<>> THEN 0 ELSE BytesToInt(SubSeq(bs, 1, Len(bs) - 1)) * 256 + bs[Len(bs)]

RECURSIVE LeadingZeros(_)
LeadingZeros(bs) ==
    IF bs = <<>> \/ Head(bs) # 0 THEN 0 ELSE 1 + LeadingZeros(Tail(bs))

RECURSIVE B58Digits(_)
B58Digits(n) ==
    IF n = 0 THEN <<>> ELSE Append(B58Digits(n \div 58), B58Alphabet[(n % 58) + 1])

\* base58.b58encode(bs).decode("utf-8"), as a str of one segment: a "1" for
\* every leading zero byte, then the number's base-58 digits.
B58Encode(bs) ==
    Str(<< [i \in 1..LeadingZeros(bs) |-> "1"] \o B58Digits(BytesToInt(bs)) >>)

\* ------------------------------------------------------------------ inputs

\* value.tailsLocation of a definition.
Locations == {Str(<< <<"l">>, <<"f">> >>)}

\* A raw definition document (the fields from_definition reads).
Definitions ==
    {[id |-> "reg1",
      credDefId |-> <<"did1", "3", "CL", "12", "tag1">>,
      revocDefType |-> "CL_ACCUM",
      tag |-> "tag1",
      value |-> [tailsLocation |-> loc,
                 maxCredNum |-> 5,
                 tailsHash |-> B58Encode(Sha256(TailsFile))]] :
        loc \in Locations}

\* context.settings.get("holder.revocation.tails_files.path", default): the
\* configured value, None standing for a context without the setting.
Contexts == {None, Str(<< <<"c">>, <<>> >>)}

\* Values the callers assign through the setters.
LocalPathValues == {None, Str(<<>>), Str(<< <<"l">>, <<"f">> >>)}
PublicUriValues == {None, Str(<<>>)} \cup Locations

\* ------------------------------------------------------------------- state

VARIABLES
    reg,     \* the RevocationRegistry object: its private fields
    files,   \* the filesystem's regular files: path segments -> bytes
    dirs,    \* the filesystem's directories
    task,    \* per caller: where its coroutine is suspended, and its locals
    last,    \* the operation that completed last, and how it ended
    ops      \* the calls and assignments made so far

vars == <<reg, files, dirs, task, last, ops>>

\* A closed file object.
ClosedFile == [open |-> FALSE, path |-> <<>>, pos |-> 0, buf |-> <<>>]

\* A caller with no call in progress.
Idle ==
    [pc |-> "idle", op |-> "none", context |-> None, pre |-> None,
     tails_stream |-> [data |-> <<>>, pos |-> 0],
     tails_file_path |-> None, tails_file |-> ClosedFile, file_hasher |-> 0]

NoOutcome ==
    [op |-> "none", kind |-> "none", value |-> None, found |-> FALSE,
     err |-> "none", invoked |-> FALSE, context |-> None, path |-> None,
     prev |-> "none"]

\* RevocationRegistry.__init__
NewRegistry(registry_id, cred_def_id, issuer_did, max_creds, reg_def_type, tag, tails_local_path, tails_public_uri, tails_hash) ==
    [_cred_def_id |-> cred_def_id,
     _issuer_did |-> issuer_did,
     _max_creds |-> max_creds,
     _reg_def_type |-> reg_def_type,
     _registry_id |-> registry_id,
     _tag |-> tag,
     _tails_local_path |-> tails_local_path,
     _tails_public_uri |-> tails_public_uri,
     _tails_hash |-> tails_hash]

\* re.match(r"^.*?([^:]*):3:CL:.*", credDefId): the ":"-separated component
\* before the first "3", "CL" pair that another component follows.
IssuerDidMatch(comps) ==
    {i \in 1..Len(comps) :
        i + 3 <= Len(comps) /\ comps[i + 1] = "3" /\ comps[i + 2] = "CL"}

IssuerDid(comps) ==
    IF IssuerDidMatch(comps) = {} THEN "None"
    ELSE comps[CHOOSE i \in IssuerDidMatch(comps) :
                   \A j \in IssuerDidMatch(comps) : i <= j]

\* from_definition with the two branches of its flag exchanged.
from_definition_flag_swapped(revoc_reg_def, public_def) ==
    NewRegistry(revoc_reg_def.id,
                revoc_reg_def.credDefId,
                IssuerDid(revoc_reg_def.credDefId),
                revoc_reg_def.value.maxCredNum,
                revoc_reg_def.revocDefType,
                revoc_reg_def.tag,
                IF public_def THEN revoc_reg_def.value.tailsLocation ELSE None,
                IF public_def THEN None ELSE revoc_reg_def.value.tailsLocation,
                revoc_reg_def.value.tailsHash)

\* RevocationRegistry.from_definition
from_definition(revoc_reg_def, public_def) ==
    NewRegistry(revoc_reg_def.id,
                revoc_reg_def.credDefId,
                IssuerDid(revoc_reg_def.credDefId),
                revoc_reg_def.value.maxCredNum,
                revoc_reg_def.revocDefType,
                revoc_reg_def.tag,
                IF public_def THEN None ELSE revoc_reg_def.value.tailsLocation,
                IF public_def THEN revoc_reg_def.value.tailsLocation ELSE None,
                revoc_reg_def.value.tailsHash)

\* ---------------------------------------------------------- the filesystem

\* A presence test that also wants the file to hold bytes.
IsFileWithBytes(fs, p) == p.segs \in DOMAIN fs /\ fs[p.segs] # <<>>

\* Path.is_file()
IsFile(fs, p) == p.segs \in DOMAIN fs

\* Path.parent
Parent(p) ==
    [kind |-> "Path",
     segs |-> IF p.segs = <<>> THEN <<>> ELSE SubSeq(p.segs, 1, Len(p.segs) - 1)]

\* tails_file_dir.mkdir(parents=True) when the directory does not exist.
MkdirParents(ds, d) ==
    IF d.segs \in ds THEN ds
    ELSE ds \cup {SubSeq(d.segs, 1, k) : k \in 0..Len(d.segs)}

\* A write that ignores the offset and starts at the head of the file.
WriteAtHead(content, pos, data) ==
    [i \in 1..(IF Len(content) > Len(data) THEN Len(content) ELSE Len(data)) |->
        IF i <= Len(data) THEN data[i] ELSE content[i]]

\* write(2) of data at offset pos: bytes past the end leave a hole of zeros.
WriteAt(content, pos, data) ==
    LET n == IF Len(content) > pos + Len(data) THEN Len(content)
             ELSE pos + Len(data)
    IN [i \in 1..n |->
           IF i > pos /\ i <= pos + Len(data) THEN data[i - pos]
           ELSE IF i <= Len(content) THEN content[i] ELSE 0]

\* An open that keeps what the file holds (mode "ab").
OpenAb(fs, p) == IF p.segs \in DOMAIN fs THEN fs ELSE (p.segs :> <<>>) @@ fs

\* open(tails_file_path, "wb", buffer_size): creates the file or truncates it.
OpenWb(fs, p) == (p.segs :> <<>>) @@ fs

OpenedFile(p) == [open |-> TRUE, path |-> p.segs, pos |-> 0, buf |-> <<>>]

\* The file object's buffer goes to the file at the object's offset.
FlushedFiles(fs, f) ==
    IF f.buf = <<>> THEN fs
    ELSE [fs EXCEPT ![f.path] = WriteAt(@, f.pos, f.buf)]

Flushed(f) == [f EXCEPT !.pos = f.pos + Len(f.buf), !.buf = <<>>]

\* tails_file.write(buf): into the buffer when it fits, else the buffer is
\* flushed first.
WriteFits(f, buf) == Len(f.buf) + Len(buf) <= BufferSize

WrittenFiles(fs, f, buf) ==
    IF WriteFits(f, buf) THEN fs ELSE FlushedFiles(fs, f)

\* A write that, when the buffer is full, replaces the buffered bytes instead
\* of flushing them.
WrittenOverBuffer(f, buf) ==
    IF WriteFits(f, buf) THEN [f EXCEPT !.buf = f.buf \o buf]
    ELSE [f EXCEPT !.buf = buf]

Written(f, buf) ==
    IF WriteFits(f, buf) THEN [f EXCEPT !.buf = f.buf \o buf]
    ELSE [Flushed(f) EXCEPT !.buf = buf]

\* A close that drops the buffered bytes.
ExitedFilesUnflushed(fs, f) == fs

\* Leaving the with block (by its end or by an exception): flush and close.
ExitedFiles(fs, f) == IF f.open THEN FlushedFiles(fs, f) ELSE fs

\* A file object left open (no with block around the loop).
ExitedStillOpen(f) == f

Exited(f) == ClosedFile

\* -------------------------------------------------------------- operations

\* A path made from the hash even when a local path is recorded.
get_receiving_path_from_hash(r, context) ==
    LET tails_file_dir == IF context = None THEN DefaultTailsDir ELSE context
    IN StrOf(JoinPath(Path(tails_file_dir), r._tails_hash))

\* RevocationRegistry.get_receiving_tails_local_path
get_receiving_tails_local_path(r, context) ==
    IF Truthy(r._tails_local_path) THEN r._tails_local_path
    ELSE LET tails_file_dir == IF context = None THEN DefaultTailsDir ELSE context
         IN StrOf(JoinPath(Path(tails_file_dir), r._tails_hash))

\* A presence test that also hashes what the file holds.
has_verified_tails_file(r, context, fs) ==
    LET p == Path(get_receiving_tails_local_path(r, context))
    IN p.segs \in DOMAIN fs /\ B58Encode(Sha256(fs[p.segs])) = r._tails_hash

\* RevocationRegistry.has_local_tails_file
has_local_tails_file(r, context, fs) ==
    IsFile(fs, Path(get_receiving_tails_local_path(r, context)))

\* What the next outcome keeps of the one before it.
Summary(l) ==
    IF l.op = "get_or_fetch_local_tails_path" /\ l.kind = "ok" /\ l.invoked
    THEN "fetched"
    ELSE IF l.err = "HashMismatch" THEN "HashMismatch" ELSE "other"

\* How a call that never reached the transport ended.
Immediate(op, context, kind, value, err) ==
    [op |-> op, kind |-> kind, value |-> value, found |-> FALSE, err |-> err,
     invoked |-> FALSE, context |-> context, path |-> None,
     prev |-> Summary(last)]

\* How a call that was suspended in t ended.
Completed(t, kind, value, err) ==
    [op |-> t.op, kind |-> kind, value |-> value, found |-> FALSE, err |-> err,
     invoked |-> TRUE, context |-> t.context, path |-> t.tails_file_path,
     prev |-> Summary(last)]

\* The caller's locals once its call is over.
Returned(t) == [Idle EXCEPT !.tails_file = Exited(t.tails_file)]

\* A retrieve that makes the destination's directory before it asks for the
\* stream.
EnterRetrieveMakesDirs(c, context, op) ==
    IF ~Truthy(reg._tails_public_uri)
    THEN /\ last' = Immediate(op, context, "err", None, "MissingPublicLocation")
         /\ UNCHANGED <<reg, files, dirs, task>>
    ELSE /\ task' = [task EXCEPT ![c] =
                        [Idle EXCEPT !.pc = "fetch_stream", !.op = op,
                                     !.context = context,
                                     !.pre = reg._tails_local_path]]
         /\ dirs' = MkdirParents(dirs,
                        Parent(Path(get_receiving_tails_local_path(reg, context))))
         /\ UNCHANGED <<reg, files, last>>

\* A retrieve that joins a call already in progress instead of fetching
\* (single flight).
EnterRetrieveCoalesced(c, context, op) ==
    IF ~Truthy(reg._tails_public_uri)
    THEN /\ last' = Immediate(op, context, "err", None, "MissingPublicLocation")
         /\ UNCHANGED <<reg, files, dirs, task>>
    ELSE IF \E d \in Callers \ {c} : task[d].pc # "idle"
    THEN /\ last' = Immediate(op, context, "ok",
                               get_receiving_tails_local_path(reg, context), "none")
         /\ UNCHANGED <<reg, files, dirs, task>>
    ELSE /\ task' = [task EXCEPT ![c] =
                        [Idle EXCEPT !.pc = "fetch_stream", !.op = op,
                                     !.context = context,
                                     !.pre = reg._tails_local_path]]
         /\ UNCHANGED <<reg, files, dirs, last>>

\* retrieve_tails, lines 158-167: the check of the public URI, then the call
\* of fetch_stream, where the coroutine is suspended.
EnterRetrieve(c, context, op) ==
    IF ~Truthy(reg._tails_public_uri)
    THEN /\ last' = Immediate(op, context, "err", None, "MissingPublicLocation")
         /\ UNCHANGED <<reg, files, dirs, task>>
    ELSE /\ task' = [task EXCEPT ![c] =
                        [Idle EXCEPT !.pc = "fetch_stream", !.op = op,
                                     !.context = context,
                                     !.pre = reg._tails_local_path]]
         /\ UNCHANGED <<reg, files, dirs, last>>

\* A caller reads get_receiving_tails_local_path(context).
GetReceivingTailsLocalPath(context) ==
    /\ ops' = ops + 1
    /\ last' = Immediate("get_receiving_tails_local_path", context, "ok",
                          get_receiving_tails_local_path(reg, context), "none")
    /\ UNCHANGED <<reg, files, dirs, task>>

\* A caller reads has_local_tails_file(context).
HasLocalTailsFile(context) ==
    /\ ops' = ops + 1
    /\ last' = [Immediate("has_local_tails_file", context, "ok", None, "none")
                    EXCEPT !.found = has_local_tails_file(reg, context, files)]
    /\ UNCHANGED <<reg, files, dirs, task>>

\* A retrieve_tails that returns the path at once when a file is there.
retrieve_tails_if_absent(c, context) ==
    /\ task[c].pc = "idle"
    /\ ops' = ops + 1
    /\ LET tails_file_path == get_receiving_tails_local_path(reg, context)
       IN IF Path(tails_file_path).segs \in DOMAIN files
          THEN /\ last' = Immediate("retrieve_tails", context, "ok",
                                    tails_file_path, "none")
               /\ UNCHANGED <<reg, files, dirs, task>>
          ELSE EnterRetrieve(c, context, "retrieve_tails")

\* A caller awaits retrieve_tails(context).
retrieve_tails(c, context) ==
    /\ task[c].pc = "idle"
    /\ ops' = ops + 1
    /\ EnterRetrieve(c, context, "retrieve_tails")

\* get_or_fetch_local_tails_path without its test of the file's presence.
get_or_fetch_always_retrieves(c, context) ==
    /\ task[c].pc = "idle"
    /\ ops' = ops + 1
    /\ EnterRetrieve(c, context, "get_or_fetch_local_tails_path")

\* A caller awaits get_or_fetch_local_tails_path(context).
get_or_fetch_local_tails_path(c, context) ==
    /\ task[c].pc = "idle"
    /\ ops' = ops + 1
    /\ LET tails_file_path == get_receiving_tails_local_path(reg, context)
       IN IF IsFile(files, Path(tails_file_path))
          THEN /\ last' = Immediate("get_or_fetch_local_tails_path", context,
                                    "ok", tails_file_path, "none")
               /\ UNCHANGED <<reg, files, dirs, task>>
          ELSE EnterRetrieve(c, context, "get_or_fetch_local_tails_path")

\* fetch_stream returns a stream: lines 171-179, up to the first read.
FetchStreamReturns(c, data) ==
    /\ task[c].pc = "fetch_stream"
    /\ LET tails_file_path ==
               Path(get_receiving_tails_local_path(reg, task[c].context))
           tails_file_dir == Parent(tails_file_path)
       IN /\ dirs' = MkdirParents(dirs, tails_file_dir)
          /\ files' = OpenWb(files, tails_file_path)
          /\ task' = [task EXCEPT ![c].pc = "read",
                                  ![c].tails_stream = [data |-> data, pos |-> 0],
                                  ![c].tails_file_path = tails_file_path,
                                  ![c].tails_file = OpenedFile(tails_file_path),
                                  ![c].file_hasher = Sha256Init]
    /\ UNCHANGED <<reg, last, ops>>

\* A failed fetch_stream that is reported and then tried again by the call.
FetchStreamRaisesAndRetries(c) ==
    /\ task[c].pc = "fetch_stream"
    /\ last' = Completed(task[c], "err", None, "FetchFailure")
    /\ UNCHANGED <<reg, files, dirs, task, ops>>

\* fetch_stream raises FetchError: lines 168-169.
FetchStreamRaises(c) ==
    /\ task[c].pc = "fetch_stream"
    /\ last' = Completed(task[c], "err", None, "FetchFailure")
    /\ task' = [task EXCEPT ![c] = Returned(task[c])]
    /\ UNCHANGED <<reg, files, dirs, ops>>

\* tails_stream.read returns n bytes: the loop body, lines 180-183.
ReadReturns(c, n) ==
    /\ task[c].pc = "read"
    /\ LET t == task[c]
           s == t.tails_stream
           buf == SubSeq(s.data, s.pos + 1, s.pos + n)
       IN /\ s.pos + n <= Len(s.data)
          /\ files' = WrittenFiles(files, t.tails_file, buf)
          /\ task' = [task EXCEPT ![c].file_hasher = Sha256Update(@, buf),
                                  ![c].tails_file = Written(@, buf),
                                  ![c].tails_stream.pos = s.pos + n]
    /\ UNCHANGED <<reg, dirs, last, ops>>

\* A comparison that accepts every download.
HashMatchesAlways(download_tails_hash, tails_hash) == TRUE

\* Line 186: the downloaded hash against self.tails_hash.
HashMatches(download_tails_hash, tails_hash) == download_tails_hash = tails_hash

\* A verified download that also forgets the public URI.
FetchedClearsPublicUri(r, tails_file_path, matches) ==
    IF matches
    THEN [r EXCEPT !._tails_local_path = tails_file_path,
                   !._tails_public_uri = None]
    ELSE r

\* The path recorded before the hashes are compared.
FetchedRecordsFirst(r, tails_file_path, matches) ==
    [r EXCEPT !._tails_local_path = tails_file_path]

\* Lines 186-191: the registry after the comparison of the hashes.
Fetched(r, tails_file_path, matches) ==
    IF matches THEN [r EXCEPT !._tails_local_path = tails_file_path] ELSE r

\* tails_stream.read returns no byte: the loop ends, lines 185-192.
ReadReturnsEmpty(c) ==
    /\ task[c].pc = "read"
    /\ LET t == task[c]
           download_tails_hash == B58Encode(Sha256Digest(t.file_hasher))
       IN /\ t.tails_stream.pos = Len(t.tails_stream.data)
          /\ files' = ExitedFiles(files, t.tails_file)
          /\ reg' = Fetched(reg, t.tails_file_path,
                             HashMatches(download_tails_hash, reg._tails_hash))
          /\ last' = IF HashMatches(download_tails_hash, reg._tails_hash)
                      THEN Completed(t, "ok", reg'._tails_local_path, "none")
                      ELSE Completed(t, "err", None, "HashMismatch")
          /\ task' = [task EXCEPT ![c] = Returned(t)]
    /\ UNCHANGED <<dirs, ops>>

\* tails_stream.read raises (the connection breaks): no except clause covers
\* lines 179 and 183, so the transport's exception leaves retrieve_tails.
ReadRaises(c) ==
    /\ task[c].pc = "read"
    /\ files' = ExitedFiles(files, task[c].tails_file)
    /\ last' = Completed(task[c], "err", None, "TransportError")
    /\ task' = [task EXCEPT ![c] = Returned(task[c])]
    /\ UNCHANGED <<reg, dirs, ops>>

\* The task is cancelled while suspended: CancelledError is raised at the await.
Cancelled(c) ==
    /\ task[c].pc \in {"fetch_stream", "read"}
    /\ files' = ExitedFiles(files, task[c].tails_file)
    /\ last' = Completed(task[c], "err", None, "CancelledError")
    /\ task' = [task EXCEPT ![c] = Returned(task[c])]
    /\ UNCHANGED <<reg, dirs, ops>>

\* How a setter call ended.
Assigned(op, v) ==
    [NoOutcome EXCEPT !.op = op, !.kind = "set", !.value = v,
                      !.prev = Summary(last)]

\* tails_local_path.setter
SetTailsLocalPath(new_path) ==
    /\ ops' = ops + 1
    /\ reg' = [reg EXCEPT !._tails_local_path = new_path]
    /\ last' = Assigned("tails_local_path", new_path)
    /\ UNCHANGED <<files, dirs, task>>

\* tails_public_uri.setter
SetTailsPublicUri(new_uri) ==
    /\ ops' = ops + 1
    /\ reg' = [reg EXCEPT !._tails_public_uri = new_uri]
    /\ last' = Assigned("tails_public_uri", new_uri)
    /\ UNCHANGED <<files, dirs, task>>

\* ----------------------------------------------------------- specifications

NoFiles == [p \in {} |-> <<>>]

\* A file some earlier run left in the configured directory.
StaleFile(r) ==
    LET p == Path(get_receiving_tails_local_path(
                      [r EXCEPT !._tails_local_path = None], Str(<< <<"c">> >>)))
    IN (p.segs :> <<1>>)

Init ==
    /\ reg \in {from_definition(d, public_def) :
                   d \in Definitions, public_def \in BOOLEAN}
    /\ \/ /\ files = NoFiles
          /\ dirs = {<<>>, << <<"tmp">> >>}
       \/ /\ files = StaleFile(reg)
          /\ dirs = {<<>>, << <<"tmp">> >>, << <<"c">> >>}
    /\ task = [c \in Callers |-> Idle]
    /\ last = NoOutcome
    /\ ops = 0

\* Any number of calls in progress at once.
Next ==
    \/ \E c \in Callers, context \in Contexts :
           ops < MaxOps /\ retrieve_tails(c, context)
    \/ \E c \in Callers, context \in Contexts :
           ops < MaxOps /\ get_or_fetch_local_tails_path(c, context)
    \/ \E c \in Callers, data \in RemoteContents : FetchStreamReturns(c, data)
    \/ \E c \in Callers : FetchStreamRaises(c)
    \/ \E c \in Callers, n \in 1..BufferSize : ReadReturns(c, n)
    \/ \E c \in Callers : ReadReturnsEmpty(c)
    \/ \E c \in Callers : ReadRaises(c)
    \/ \E c \in Callers : Cancelled(c)
    \/ \E new_path \in LocalPathValues :
           ops < MaxOps /\ SetTailsLocalPath(new_path)
    \/ \E new_uri \in PublicUriValues :
           ops < MaxOps /\ SetTailsPublicUri(new_uri)
    \/ \E context \in Contexts :
           ops < MaxOps /\ GetReceivingTailsLocalPath(context)
    \/ \E context \in Contexts : ops < MaxOps /\ HasLocalTailsFile(context)

Spec == Init /\ [][Next]_vars

\* No call in progress.
Quiet == \A c \in Callers : task[c].pc = "idle"

\* One call at a time: a call or an assignment starts only when no call is in
\* progress.
StartsAlone == Quiet /\ ops < MaxSeqOps

NextSeq ==
    \/ \E c \in Callers, context \in Contexts :
           StartsAlone /\ retrieve_tails(c, context)
    \/ \E c \in Callers, context \in Contexts :
           StartsAlone /\ get_or_fetch_local_tails_path(c, context)
    \/ \E c \in Callers, data \in RemoteContents : FetchStreamReturns(c, data)
    \/ \E c \in Callers : FetchStreamRaises(c)
    \/ \E c \in Callers, n \in 1..BufferSize : ReadReturns(c, n)
    \/ \E c \in Callers : ReadReturnsEmpty(c)
    \/ \E c \in Callers : ReadRaises(c)
    \/ \E c \in Callers : Cancelled(c)
    \/ \E new_path \in LocalPathValues :
           StartsAlone /\ SetTailsLocalPath(new_path)
    \/ \E new_uri \in PublicUriValues :
           StartsAlone /\ SetTailsPublicUri(new_uri)
    \/ \E context \in Contexts :
           StartsAlone /\ GetReceivingTailsLocalPath(context)
    \/ \E context \in Contexts : StartsAlone /\ HasLocalTailsFile(context)

SpecSeq == Init /\ [][NextSeq]_vars

\* What the event loop does for a call in progress once the transport has
\* answered: the await returns or raises and the coroutine runs on.
Progress(c) ==
    \/ \E data \in RemoteContents : FetchStreamReturns(c, data)
    \/ FetchStreamRaises(c)
    \/ \E n \in 1..BufferSize : ReadReturns(c, n)
    \/ ReadReturnsEmpty(c)
    \/ ReadRaises(c)

\* Every await of every call is answered in the end.
SpecLive == Init /\ [][Next]_vars /\ \A c \in Callers : WF_vars(Progress(c))

\* ------------------------------------------------------------------ claims

\* The caller's call ends in this step.
Completes(c) == task[c].pc # "idle" /\ task'[c].pc = "idle"

\* The bytes the call has read from its stream, in the order read.
BytesRead(t) == SubSeq(t.tails_stream.data, 1, t.tails_stream.pos)

\* A field that is None or "".
Unset(v) == v = None \/ v = Str(<<>>)

\* The last call was a get_or_fetch that fetched the file and returned its path.
FetchedByGetOrFetch ==
    /\ last.op = "get_or_fetch_local_tails_path"
    /\ last.kind = "ok"
    /\ last.invoked

\* C1: after a get_or_fetch that fetched the file and succeeded, the next
\* get_or_fetch (whatever its context) returns the same path at once: the
\* transport is not invoked (no call is left in progress), and the registry,
\* the files and the directories are as before; the two calls invoked the
\* transport once.
C1_SecondGetOrFetchIsNoOp ==
    [][\A c \in Callers, context \in Contexts :
          (FetchedByGetOrFetch /\ get_or_fetch_local_tails_path(c, context))
          => /\ last'.kind = "ok"
             /\ ~last'.invoked
             /\ last'.value = last.value
             /\ UNCHANGED <<reg, files, dirs, task>>]_vars

\* A get_or_fetch has returned the cached path right after one that fetched.
C1_Witness ==
    /\ last.prev = "fetched"
    /\ last.op = "get_or_fetch_local_tails_path"
    /\ last.kind = "ok"
    /\ ~last.invoked
    /\ last.value = reg._tails_local_path

\* C2: a call that reached the transport returns a path only if the base58
\* SHA-256 digest of the bytes it read is tails_hash; when the stream ends, it
\* returns the path if the digest is tails_hash, and otherwise fails with
\* HashMismatch leaving tails_local_path as it was when the call began.
C2_SuccessIffDigestMatches ==
    [][\A c \in Callers :
          Completes(c) =>
              LET t == task[c]
                  digest == B58Encode(Sha256(BytesRead(t)))
              IN /\ last'.kind = "ok" => digest = reg._tails_hash
                 /\ ReadReturnsEmpty(c) =>
                        IF digest = reg._tails_hash
                        THEN last'.kind = "ok" /\ last'.err = "none"
                        ELSE /\ last'.kind = "err"
                             /\ last'.err = "HashMismatch"
                             /\ reg'._tails_local_path = t.pre]_vars

\* A retrieve of a registry with no local path has failed on the hash, and the
\* local path is still unset.
C2_Witness ==
    /\ last.err = "HashMismatch"
    /\ last.invoked
    /\ reg._tails_local_path = None

\* C3: when a retrieve that runs alone succeeds, the file at the resolved
\* destination holds the stream's bytes in the order read, tails_local_path
\* is the resolved destination, and the call returns that path.
C3_RoundTrip ==
    [][\A c \in Callers :
          (ReadReturnsEmpty(c) /\ last'.kind = "ok") =>
              LET t == task[c]
                  dest == Path(get_receiving_tails_local_path(reg, t.context))
              IN /\ dest.segs \in DOMAIN files'
                 /\ files'[dest.segs] = t.tails_stream.data
                 /\ files'[dest.segs] = BytesRead(t)
                 /\ reg'._tails_local_path = dest
                 /\ last'.value = dest]_vars

\* A retrieve has succeeded, and the file it wrote holds the tails file.
C3_Witness ==
    /\ last.kind = "ok"
    /\ last.invoked
    /\ last.value.segs \in DOMAIN files
    /\ files[last.value.segs] = TailsFile

\* C4: a retrieve or get_or_fetch that fails (no public URI, a transport
\* failure at open or at a read, a hash mismatch, a cancellation) leaves
\* tails_local_path with the value it had when the call began.
C4_FailureKeepsLocalPath ==
    [][/\ \A c \in Callers :
              (Completes(c) /\ last'.kind = "err")
              => reg'._tails_local_path = task[c].pre
       /\ (ops' # ops /\ last' # last /\ last'.kind = "err")
              => reg'._tails_local_path = reg._tails_local_path]_vars

\* A call was cancelled after it had opened its destination.
C4_Witness ==
    /\ last.err = "CancelledError"
    /\ last.path # None
    /\ Quiet

\* C5: only a call suspended in its read loop holds an open destination file:
\* every way out of retrieve (success, hash mismatch, a read that raises,
\* cancellation) closes it, and with no call in progress none is open.
C5_HandleReleased ==
    \A c \in Callers : task[c].tails_file.open => task[c].pc = "read"

\* A call that had opened its destination failed on a read, and no file is
\* open.
C5_Witness ==
    /\ last.err = "TransportError"
    /\ last.path # None
    /\ Quiet
    /\ \A c \in Callers : ~task[c].tails_file.open

\* C6: a transport failure at the opening of the stream or at a read ends the
\* call with FetchFailure.
C6_TransportFailureIsFetchFailure ==
    [][\A c \in Callers :
          (FetchStreamRaises(c) \/ ReadRaises(c))
          => last'.err = "FetchFailure"]_vars

\* C7: retrieve with tails_public_uri None or "", and get_or_fetch then with
\* no file at the resolved path, fail with MissingPublicLocation at once: no
\* transport call, no directory or file made or written, registry unchanged.
C7_MissingPublicLocation ==
    [][\A c \in Callers, context \in Contexts :
          (/\ Unset(reg._tails_public_uri)
           /\ \/ retrieve_tails(c, context)
              \/ /\ get_or_fetch_local_tails_path(c, context)
                 /\ Path(get_receiving_tails_local_path(reg, context)).segs
                        \notin DOMAIN files)
          => /\ last'.kind = "err"
             /\ last'.err = "MissingPublicLocation"
             /\ ~last'.invoked
             /\ UNCHANGED <<reg, files, dirs, task>>]_vars

\* A get_or_fetch has failed for want of a public URI.
C7_Witness ==
    /\ last.op = "get_or_fetch_local_tails_path"
    /\ last.err = "MissingPublicLocation"
    /\ Unset(reg._tails_public_uri)

\* C8: get_or_fetch with a file at the resolved path returns that path at
\* once, whatever the file holds and whatever tails_public_uri is: nothing is
\* fetched, written or changed; with no file there it goes on as retrieve
\* does (MissingPublicLocation, or the call of the transport).
C8_TrustOnPresence ==
    [][\A c \in Callers, context \in Contexts :
          get_or_fetch_local_tails_path(c, context) =>
              LET p == get_receiving_tails_local_path(reg, context)
              IN IF Path(p).segs \in DOMAIN files
                 THEN /\ last'.kind = "ok"
                      /\ last'.value = p
                      /\ ~last'.invoked
                      /\ UNCHANGED <<reg, files, dirs, task>>
                 ELSE /\ UNCHANGED <<reg, files, dirs>>
                      /\ IF Unset(reg._tails_public_uri)
                         THEN /\ last'.err = "MissingPublicLocation"
                              /\ task' = task
                         ELSE /\ last' = last
                              /\ task'[c].pc = "fetch_stream"]_vars

\* A get_or_fetch with no public URI has returned a file that does not hash
\* to tails_hash.
C8_Witness ==
    /\ last.op = "get_or_fetch_local_tails_path"
    /\ last.kind = "ok"
    /\ ~last.invoked
    /\ Unset(reg._tails_public_uri)
    /\ B58Encode(Sha256(files[Path(last.value).segs])) # reg._tails_hash

\* C9: a retrieve that fails with HashMismatch leaves the bytes it downloaded
\* in the file at its destination, and the next get_or_fetch with the same
\* context returns that path without the transport, although the file does
\* not hash to tails_hash.
C9_MismatchedFileIsTrusted ==
    [][/\ \A c \in Callers :
              (ReadReturnsEmpty(c) /\ last'.err = "HashMismatch")
              => /\ last'.path.segs \in DOMAIN files'
                 /\ files'[last'.path.segs] = task[c].tails_stream.data
       /\ \A c \in Callers :
              (last.err = "HashMismatch"
               /\ get_or_fetch_local_tails_path(c, last.context))
              => /\ last'.kind = "ok"
                 /\ ~last'.invoked
                 /\ Path(last'.value) = last.path
                 /\ B58Encode(Sha256(files'[last.path.segs])) # reg._tails_hash
                 /\ UNCHANGED <<reg, files, dirs, task>>]_vars

\* A get_or_fetch has returned, right after a hash mismatch, a file that does
\* not hash to tails_hash.
C9_Witness ==
    /\ last.prev = "HashMismatch"
    /\ last.op = "get_or_fetch_local_tails_path"
    /\ last.kind = "ok"
    /\ ~last.invoked
    /\ B58Encode(Sha256(files[Path(last.value).segs])) # reg._tails_hash

\* The directory the context gives: the configured one, or the fallback.
BaseDir(context) == IF context = None THEN DefaultTailsDir.segs ELSE context.segs

\* C10 (as amended): get_receiving_tails_local_path returns tails_local_path
\* itself when that is neither None nor "", and otherwise the base directory
\* (the configured one, or the fixed fallback) joined with tails_hash; the
\* call changes neither the registry nor the filesystem.
C10_ResolveLocalPath ==
    [][\A context \in Contexts :
          GetReceivingTailsLocalPath(context)
          => /\ last'.value =
                    IF ~Unset(reg._tails_local_path) THEN reg._tails_local_path
                    ELSE Str(Norm(BaseDir(context)) \o reg._tails_hash.segs)
             /\ UNCHANGED <<reg, files, dirs, task>>]_vars

\* C10 as stated: tails_local_path is returned whenever it is set (not None).
C10_AsStated ==
    [][\A context \in Contexts :
          GetReceivingTailsLocalPath(context)
          => /\ last'.value =
                    IF reg._tails_local_path # None THEN reg._tails_local_path
                    ELSE Str(Norm(BaseDir(context)) \o reg._tails_hash.segs)
             /\ UNCHANGED <<reg, files, dirs, task>>]_vars

\* The path was read with a local path recorded, and it was returned whatever
\* the hash and the context were.
C10_Witness ==
    /\ last.op = "get_receiving_tails_local_path"
    /\ ~Unset(reg._tails_local_path)
    /\ last.value = reg._tails_local_path
    /\ last.context # None

\* C11: has_local_tails_file is true exactly when a regular file is at the
\* resolved path, whatever the file holds; right after a retrieve that
\* succeeded it is true for every context; the call changes neither the
\* registry nor the filesystem.
C11_HasLocalFile ==
    [][\A context \in Contexts :
          HasLocalTailsFile(context)
          => /\ last'.found =
                    (Path(get_receiving_tails_local_path(reg, context)).segs
                         \in DOMAIN files)
             /\ (last.kind = "ok" /\ last.invoked) => last'.found
             /\ UNCHANGED <<reg, files, dirs, task>>]_vars

\* has_local_tails_file has answered true right after a retrieve that
\* succeeded.
C11_Witness ==
    /\ last.op = "has_local_tails_file"
    /\ last.prev = "fetched"
    /\ last.found

\* C12: from_definition with the public flag gives tails_public_uri =
\* tailsLocation and no tails_local_path; without the flag it gives
\* tails_local_path = tailsLocation and no tails_public_uri; so the registry as
\* constructed (before any call or assignment) has exactly one of the two.
C12_FromDefinition ==
    /\ \A d \in Definitions :
           /\ from_definition(d, TRUE)._tails_public_uri = d.value.tailsLocation
           /\ from_definition(d, TRUE)._tails_local_path = None
           /\ from_definition(d, FALSE)._tails_local_path = d.value.tailsLocation
           /\ from_definition(d, FALSE)._tails_public_uri = None
    /\ ops = 0 =>
           /\ (reg._tails_local_path = None) # (reg._tails_public_uri = None)
           /\ \E d \in Definitions :
                  d.value.tailsLocation
                      \in {reg._tails_local_path, reg._tails_public_uri}

\* A registry as constructed from a public definition.
C12_Witness ==
    /\ ops = 0
    /\ reg._tails_public_uri \in Locations
    /\ reg._tails_local_path = None

\* The callers that hold an open file on the path.
Writers(p) ==
    {c \in Callers : task[c].tails_file.open /\ task[c].tails_file.path = p}

\* C13 as stated: no two calls in progress hold open write handles on the same
\* destination path.
C13_AsStated == \A c \in Callers : Cardinality(Writers(task[c].tails_file.path)) <= 1

\* C13 (as amended): the destination is opened for writing with truncation
\* and without exclusion: the open succeeds and leaves the file empty even
\* while other calls hold it open for writing, and those keep their handles;
\* a call holds its one handle only while it is in its read loop, so two
\* handles are open on one path only while two calls overlap.
C13_TruncatingOpen ==
    [][\A c \in Callers, data \in RemoteContents :
          FetchStreamReturns(c, data) =>
              LET p == task'[c].tails_file_path.segs
              IN /\ files'[p] = <<>>
                 /\ \A d \in Callers \ {c} : task'[d] = task[d]
                 /\ task'[c].tails_file.open
                 /\ task'[c].tails_file.path = p
                 /\ \A d \in Callers :
                        task'[d].tails_file.open => task'[d].pc = "read"]_vars

\* Two calls in progress hold the same destination open, and the second open
\* has emptied the file the first had written to.
C13_Witness ==
    \E c, d \in Callers :
        /\ c # d
        /\ task[c].tails_file.open
        /\ task[d].tails_file.open
        /\ task[c].tails_file.path = task[d].tails_file.path
        /\ task[c].tails_file.pos > 0
        /\ files[task[c].tails_file.path] = <<>>

\* The bytes at the path do not hash to the registry's tails_hash.
Unverified(p) == B58Encode(Sha256(files[p.segs])) # reg._tails_hash

\* C14: there is no single flight: a get_or_fetch that finds no file at its
\* path and has a public URI goes to the transport itself, whatever calls
\* are already in progress (these are left as they are); so two calls fetch
\* and write the same path, and one is returned the path as a success while
\* the file there does not hash to tails_hash.
C14_NoSingleFlight ==
    [][\A c \in Callers, context \in Contexts :
          (/\ get_or_fetch_local_tails_path(c, context)
           /\ Path(get_receiving_tails_local_path(reg, context)).segs
                  \notin DOMAIN files
           /\ ~Unset(reg._tails_public_uri))
          => /\ task'[c].pc = "fetch_stream"
             /\ \A d \in Callers \ {c} : task'[d] = task[d]
             /\ UNCHANGED <<reg, files, dirs, last>>]_vars

\* A get_or_fetch has passed its hash check and returned the path, the other
\* caller's get_or_fetch is still writing to that path, and the file there
\* does not hash to tails_hash.
C14_Witness ==
    /\ FetchedByGetOrFetch
    /\ Unverified(Path(last.value))
    /\ \E d \in Callers :
           /\ task[d].op = "get_or_fetch_local_tails_path"
           /\ task[d].pc = "read"
           /\ task[d].tails_file.path = Path(last.value).segs
           /\ task[d].context = last.context

\* A get_or_fetch has returned the path on the presence of the file while the
\* other caller's get_or_fetch is still writing it.
C14_WitnessPresence ==
    /\ last.op = "get_or_fetch_local_tails_path"
    /\ last.kind = "ok"
    /\ ~last.invoked
    /\ Unverified(Path(last.value))
    /\ \E d \in Callers :
           /\ task[d].op = "get_or_fetch_local_tails_path"
           /\ task[d].pc = "read"
           /\ task[d].tails_file.path = Path(last.value).segs

\* The three ways a call ends, read from the outcome it leaves.
CachedAssumedValid(l) ==
    l.op = "get_or_fetch_local_tails_path" /\ l.kind = "ok" /\ ~l.invoked

FetchedVerified(l) == l.kind = "ok" /\ l.invoked /\ l.err = "none"

FetchFailed(l) == l.kind = "err" /\ l.err # "none"

\* The caller's retrieve or get_or_fetch returns or raises in this step.
Ends(c) ==
    \/ Completes(c)
    \/ /\ task[c].pc = "idle"
       /\ task'[c].pc = "idle"
       /\ last' # last
       /\ last'.op \in {"retrieve_tails", "get_or_fetch_local_tails_path"}

\* C15: a call asks the transport for the stream only when it starts (a call
\* in progress never goes back to fetch_stream), a failure of fetch_stream or
\* of a read ends the call at once with the error as its outcome, and every
\* call that ends leaves exactly one of the outcomes cached-assumed-valid,
\* fetched-verified, fetch-failed.
C15_OneAttemptOneOutcome ==
    [][\A c \in Callers :
          /\ (task'[c].pc = "fetch_stream" /\ task'[c] # task[c])
                 => task[c].pc = "idle"
          /\ task[c].pc = "read" => task'[c].pc \in {"read", "idle"}
          /\ (FetchStreamRaises(c) \/ ReadRaises(c))
                 => Completes(c) /\ FetchFailed(last') /\ last'.invoked
          /\ (last' # last /\ last'.invoked) => \E d \in Callers : Completes(d)
          /\ Ends(c) =>
                 /\ Cardinality({o \in {"cached", "verified", "failed"} :
                        \/ o = "cached" /\ CachedAssumedValid(last')
                        \/ o = "verified" /\ FetchedVerified(last')
                        \/ o = "failed" /\ FetchFailed(last')}) = 1
                 /\ CachedAssumedValid(last')
                        => Path(last'.value).segs \in DOMAIN files]_vars

\* A call whose read failed after its one stream was opened has ended with
\* that error, and nothing is in progress.
C15_Witness ==
    /\ FetchFailed(last)
    /\ last.err = "TransportError"
    /\ last.invoked
    /\ Quiet

\* C16: the stream is opened first: until fetch_stream has returned, the call
\* has made no directory, has no destination path and no open file; the step
\* in which fetch_stream returns makes the parent directories and then the
\* file; and when fetch_stream fails the call ends with the files and the
\* directories as they were.
C16_StreamOpenedFirst ==
    [][\A c \in Callers :
          /\ (task[c].pc = "idle" /\ task'[c].pc # "idle")
                 => /\ task'[c].pc = "fetch_stream"
                    /\ UNCHANGED <<files, dirs>>
          /\ task'[c].pc = "fetch_stream"
                 => /\ task'[c].tails_file_path = None
                    /\ ~task'[c].tails_file.open
          /\ (task[c].pc = "fetch_stream" /\ task'[c].pc = "read")
                 => /\ Parent(task'[c].tails_file_path).segs \in dirs'
                    /\ task'[c].tails_file_path.segs \in DOMAIN files'
          /\ FetchStreamRaises(c)
                 => /\ UNCHANGED <<files, dirs, reg>>
                    /\ last'.err = "FetchFailure"]_vars

\* The one call made so far ended because the stream could not be opened:
\* there is no file, and the default directory has not been made.
C16_Witness ==
    /\ last.err = "FetchFailure"
    /\ last.context = None
    /\ ops = 1
    /\ files = NoFiles
    /\ DefaultTailsDir.segs \notin dirs

\* C17: in the read loop the digest has taken exactly the bytes read so far,
\* in the order read, and the file object has taken the same bytes in the
\* same order (those before its offset written out, the rest in its buffer);
\* the first empty chunk ends the loop and the call; and when every await is
\* answered a call in progress ends.
C17_ReadLoop ==
    /\ [](\A c \in Callers :
            task[c].pc = "read" =>
                LET t == task[c]
                    f == t.tails_file
                IN /\ t.file_hasher = Sha256Update(Sha256Init, BytesRead(t))
                   /\ f.open
                   /\ f.pos + Len(f.buf) = t.tails_stream.pos
                   /\ f.buf = SubSeq(t.tails_stream.data, f.pos + 1,
                                     t.tails_stream.pos))
    /\ [][\A c \in Callers :
            /\ ReadReturnsEmpty(c) => Completes(c)
            /\ \A n \in 1..BufferSize :
                   ReadReturns(c, n) =>
                       /\ task'[c].pc = "read"
                       /\ BytesRead(task'[c]) =
                              BytesRead(task[c]) \o
                                  SubSeq(task[c].tails_stream.data,
                                         task[c].tails_stream.pos + 1,
                                         task[c].tails_stream.pos + n)]_vars
    /\ \A c \in Callers : (task[c].pc # "idle") ~> (task[c].pc = "idle")

\* A call has read the two chunks of its stream: the first has been written
\* out, the second is in the file object's buffer, and the next read will
\* return the empty chunk.
C17_Witness ==
    \E c \in Callers :
        /\ task[c].pc = "read"
        /\ task[c].tails_stream.data = TailsFile
        /\ task[c].tails_stream.pos = Len(TailsFile)
        /\ task[c].tails_file.pos = 1
        /\ task[c].tails_file.buf = <<2>>

\* The fields no operation assigns.
Immutable(r) ==
    <<r._tails_hash, r._registry_id, r._cred_def_id, r._issuer_did,
      r._max_creds, r._reg_def_type, r._tag>>

\* C18: tails_hash, registry_id, cred_def_id, issuer_did, max_creds,
\* reg_def_type and tag are those of the construction in every state;
\* tails_public_uri changes only in a step of its setter; tails_local_path
\* changes only in a step of its setter or in the step that ends a retrieve
\* with success, and then to that retrieve's destination.
C18_FieldsChange ==
    /\ [](\E d \in Definitions :
             Immutable(reg) = Immutable(from_definition(d, TRUE)))
    /\ [][/\ Immutable(reg') = Immutable(reg)
          /\ reg'._tails_public_uri # reg._tails_public_uri
                 => \E new_uri \in PublicUriValues : SetTailsPublicUri(new_uri)
          /\ reg'._tails_local_path # reg._tails_local_path
                 => \/ \E new_path \in LocalPathValues :
                           SetTailsLocalPath(new_path)
                    \/ \E c \in Callers :
                           /\ Completes(c)
                           /\ FetchedVerified(last')
                           /\ reg'._tails_local_path = task[c].tails_file_path]_vars

\* A retrieve_tails has succeeded as the last of the operations: the local
\* path is the retrieve's destination and the public URI is still set.
C18_Witness ==
    /\ last.op = "retrieve_tails"
    /\ FetchedVerified(last)
    /\ reg._tails_local_path = last.path
    /\ reg._tails_local_path # None
    /\ reg._tails_public_uri \in Locations
    /\ ops = MaxOps

\* C19: a retrieve_tails with a public URI goes to the transport whether or
\* not a file is at its destination; when the stream is returned the
\* destination is opened empty, whatever it held; and when the call then
\* fails (a read raises, the call is cancelled, or the hashes differ) the file
\* holds exactly the bytes this call read and wrote.
C19_RetrieveOverwrites ==
    [][\A c \in Callers :
          /\ \A context \in Contexts :
                 (retrieve_tails(c, context) /\ ~Unset(reg._tails_public_uri))
                     => /\ task'[c].pc = "fetch_stream"
                        /\ UNCHANGED <<reg, files, dirs, last>>
          /\ \A data \in RemoteContents :
                 FetchStreamReturns(c, data)
                     => files'[task'[c].tails_file_path.segs] = <<>>
          /\ (task[c].pc = "read" /\ Completes(c) /\ FetchFailed(last'))
                 => files'[task[c].tails_file_path.segs] = BytesRead(task[c])]_vars

\* A retrieve_tails that followed a get_or_fetch which had fetched and
\* verified the file has failed: the recorded path still names the file, and
\* the file no longer holds the tails file.
C19_Witness ==
    /\ last.op = "retrieve_tails"
    /\ FetchFailed(last)
    /\ last.prev = "fetched"
    /\ reg._tails_local_path = last.path
    /\ last.path # None
    /\ files[last.path.segs] # TailsFile

\* The local path is one that a successful retrieve recorded (a Path object;
\* the setter's values here are None and strings) and no setter has replaced.
Recorded == reg._tails_local_path.kind = "Path"

\* C20: while tails_local_path is the path a successful retrieve recorded,
\* every operation resolves to it whatever context it is given:
\* get_receiving_tails_local_path returns it, has_local_tails_file tests it,
\* get_or_fetch returns it when the file is there, retrieve makes it its
\* destination, and a successful retrieve records it again.
C20_StickyOverride ==
    [][Recorded =>
          /\ \A context \in Contexts :
                 /\ GetReceivingTailsLocalPath(context)
                        => last'.value = reg._tails_local_path
                 /\ HasLocalTailsFile(context)
                        => last'.found = (reg._tails_local_path.segs \in DOMAIN files)
                 /\ \A c \in Callers :
                        (/\ get_or_fetch_local_tails_path(c, context)
                         /\ reg._tails_local_path.segs \in DOMAIN files)
                            => /\ last'.value = reg._tails_local_path
                               /\ ~last'.invoked
                               /\ task' = task
          /\ \A c \in Callers :
                 /\ \A data \in RemoteContents :
                        FetchStreamReturns(c, data)
                            => task'[c].tails_file_path = reg._tails_local_path
                 /\ (/\ Completes(c)
                     /\ FetchedVerified(last')
                     /\ task[c].tails_file_path = reg._tails_local_path)
                        => reg' = reg]_vars

\* After a retrieve recorded a path under the default directory,
\* get_receiving_tails_local_path was called with a configured directory and
\* returned the recorded path.
C20_Witness ==
    /\ Recorded
    /\ last.op = "get_receiving_tails_local_path"
    /\ last.context # None
    /\ last.value = reg._tails_local_path
    /\ SubSeq(last.value.segs, 1, Len(DefaultTailsDir.segs)) = DefaultTailsDir.segs

====
